---- MODULE Spec2Model ----
(***************************************************************************)
(* Model of src/src/animation.js: the Mobject tree (Group/Mobject), its    *)
(* alignment routines (alignData and helpers), and the Animation engine    *)
(* with its variants (ShowCreation, Write, FadeIn, FadeOut,                *)
(* ReplacementTransform, Wait).                                            *)
(*                                                                         *)
(* JavaScript numbers are modelled as exact rationals <<n, d>> with d > 0; *)
(* NaN is the pair <<0, 0>>.  Objects (nodes, paths, anchors) carry an     *)
(* integer id standing for their JavaScript identity; an object created by *)
(* an operation is born with id 0 and receives an unused id when the       *)
(* operation ends.                                                         *)
(***************************************************************************)
EXTENDS Integers, Sequences, FiniteSets, TLC

VARIABLES
    pc,               \* position of the driver: "unbegun", "running", "crashed", ...
    variant,          \* which Animation subclass is being played
    rateFunc,         \* this.rateFunc (name of a rate function)
    lagRatio,         \* this.lagRatio (a rational)
    mobject,          \* this.mobject: the live tree
    startingMobject,  \* this.startingMobject: the snapshot taken by begin()
    targetMobject,    \* this.targetMobject (ReplacementTransform)
    targetCopy,       \* this.targetCopy (ReplacementTransform)
    lastAlpha,        \* argument of the latest interpolate() call
    hist              \* history record: values of the trees before the latest operation

vars == <<pc, variant, rateFunc, lagRatio, mobject, startingMobject,
          targetMobject, targetCopy, lastAlpha, hist>>

(***************************************************************************)
(* Numbers.                                                                *)
(***************************************************************************)
Abs(a) == IF a < 0 THEN -a ELSE a

RECURSIVE Gcd(_, _)
Gcd(a, b) == IF b = 0 THEN a ELSE Gcd(b, a % b)

NaN == <<0, 0>>

IsNaN(q) == q[2] = 0

\* the number n/d, in lowest terms
Q(n, d) ==
    IF d = 0 THEN NaN
    ELSE LET s == IF d < 0 THEN -1 ELSE 1
             g == Gcd(Abs(n), Abs(d))
         IN  <<(s * n) \div g, (s * d) \div g>>

I(n) == <<n, 1>>

\* sums, products and comparisons cancel common factors first, so that the
\* intermediate integers stay small
QAdd(a, b) ==
    IF IsNaN(a) \/ IsNaN(b) THEN NaN
    ELSE IF a[2] = 1 /\ b[2] = 1 THEN <<a[1] + b[1], 1>>
    ELSE LET g == Gcd(a[2], b[2])
         IN  Q(a[1] * (b[2] \div g) + b[1] * (a[2] \div g), (a[2] \div g) * b[2])

QSub(a, b) == QAdd(a, <<-b[1], b[2]>>)

QMul(a, b) ==
    IF IsNaN(a) \/ IsNaN(b) THEN NaN
    ELSE IF a[2] = 1 /\ b[2] = 1 THEN <<a[1] * b[1], 1>>
    ELSE LET g1 == Gcd(Abs(a[1]), b[2])
             g2 == Gcd(Abs(b[1]), a[2])
         IN  Q((a[1] \div g1) * (b[1] \div g2), (a[2] \div g2) * (b[2] \div g1))

QDiv(a, b) == IF IsNaN(a) \/ IsNaN(b) THEN NaN
              ELSE IF b[1] = 0 THEN NaN
              ELSE QMul(a, Q(b[2], b[1]))

\* JavaScript comparisons: any comparison with NaN is false
QLe(a, b) ==
    /\ ~IsNaN(a)
    /\ ~IsNaN(b)
    /\ LET g == Gcd(a[2], b[2]) IN a[1] * (b[2] \div g) <= b[1] * (a[2] \div g)

QLt(a, b) ==
    /\ ~IsNaN(a)
    /\ ~IsNaN(b)
    /\ LET g == Gcd(a[2], b[2]) IN a[1] * (b[2] \div g) < b[1] * (a[2] \div g)

QFloor(a) == a[1] \div a[2]

QMin(a, b) == IF QLe(a, b) THEN a ELSE b

QMax(a, b) == IF QLe(a, b) THEN b ELSE a

\* Math.round(a): nearest integer, halves upwards
QRound(a) == (2 * a[1] + a[2]) \div (2 * a[2])

Min2(a, b) == IF a <= b THEN a ELSE b

RECURSIVE SumSeq(_)
SumSeq(s) == IF s = <<>> THEN 0 ELSE Head(s) + SumSeq(Tail(s))

Last(s) == s[Len(s)]

RECURSIVE Flatten(_)
Flatten(ss) == IF ss = <<>> THEN <<>> ELSE Head(ss) \o Flatten(Tail(ss))

(***************************************************************************)
(* Points: pairs <<x, y>> of numbers.                                      *)
(***************************************************************************)
Pt(x, y) == <<I(x), I(y)>>

NaNPt == <<NaN, NaN>>

\* (y - x) * t + x
NumLerp(x, y, t) ==
    IF IsNaN(x) \/ IsNaN(y) \/ IsNaN(t) THEN NaN
    ELSE IF t = I(0) \/ x = y THEN x
    ELSE IF t = I(1) THEN y
    ELSE QAdd(QMul(QSub(y, x), t), x)

\* Two.Vector.lerp as used at lines 783-785: (v - this) * t + this
VLerp(p, v, t) == <<NumLerp(p[1], v[1], t), NumLerp(p[2], v[2], t)>>

(***************************************************************************)
(* Objects.  An anchor is a Two.Anchor: position p, controls.left l,       *)
(* controls.right r and a command.  A child of a node is either a Two.Path *)
(* (tag "path") or a Mobject/Group (tag "mob"); both are records over the  *)
(* same fields so that a children list can hold either.                    *)
(***************************************************************************)
\* new Two.Anchor(x, y, ux, uy, vx, vy, command)
NewAnchor(p, l, r, cmd) == [id |-> 0, p |-> p, l |-> l, r |-> r, cmd |-> cmd]

\* Two.Anchor.clone(): a new anchor with the same coordinates and command
AnchorClone(a) == [a EXCEPT !.id = 0]

\* chroma colour: the rgb part is <<c1, c2, t>>, the mix of the named colours
\* c1 and c2 at t; a is the 8-bit alpha channel that hex() writes
Pure(c) == <<c, c, I(0)>>

Colour(rgb, a) == [rgb |-> rgb, a |-> a]

\* the _stroke, _fill and _linewidth a Two.Group starts with
TwoDefaultStyle ==
    [stroke |-> Colour(Pure("black"), 255), fill |-> Colour(Pure("white"), 255),
     linewidth |-> I(1)]

\* new Two.Path(): vertices, closed
NewPath(vertices, closed) ==
    [tag |-> "path", id |-> 0, kind |-> "Path", vertices |-> vertices,
     closed |-> closed, children |-> <<>>, style |-> TwoDefaultStyle,
     opacity |-> I(1)]

\* Two.Path.clone(): a new path holding clones of the vertices
PathClone(p) ==
    [p EXCEPT !.id = 0, !.vertices = [i \in DOMAIN p.vertices |-> AnchorClone(p.vertices[i])]]

\* DEFAULT_STYLE, lines 351-357
DEFAULT_STYLE ==
    [strokeColor |-> Colour(Pure("white"), 255), strokeOpacity |-> I(1),
     fillColor |-> Colour(Pure("black"), 255), fillOpacity |-> I(0),
     strokeWidth |-> I(4)]

\* Object.assign(base, style): the fields style has replace those of base
Assign(base, style) ==
    [k \in DOMAIN base |-> IF k \in DOMAIN style THEN style[k] ELSE base[k]]

\* chroma(colour).alpha(opacity).hex(): the alpha is written as a byte
ChromaAlphaHex(colour, opacity) == Colour(colour.rgb, QRound(QMul(opacity, I(255))))

\* chroma(hex).alpha(): the byte read back as a number in [0, 1], which
\* chroma rounds to two decimals
ChromaAlpha(colour) == Q(QRound(Q(colour.a * 100, 255)), 100)

\* path(), line 686
path(n) == n.children[1]

\* submobjects(), line 690
submobjects(n) == Tail(n.children)

\* points(), line 694
points(n) == n.children[1].vertices

\* getStyleDict(), lines 600-610
getStyleDict(n) ==
    [strokeColor |-> n.style.stroke, strokeOpacity |-> ChromaAlpha(n.style.stroke),
     fillColor |-> n.style.fill, fillOpacity |-> ChromaAlpha(n.style.fill),
     strokeWidth |-> QMul(n.style.linewidth, I(100))]

\* the fill/stroke/linewidth setters of Two.Group: the value is stored on
\* the group and handed down to every child
RECURSIVE Trickle(_, _)
Trickle(n, st) ==
    IF n.tag = "path" THEN n
    ELSE [n EXCEPT !.style = st,
                   !.children = [k \in DOMAIN n.children |-> Trickle(n.children[k], st)]]

\* lines 559-563: the stroke, fill and linewidth written for a style dict
StyleToSet(combinedStyle) ==
    [stroke |-> ChromaAlphaHex(combinedStyle.strokeColor, combinedStyle.strokeOpacity),
     fill |-> ChromaAlphaHex(combinedStyle.fillColor, combinedStyle.fillOpacity),
     linewidth |-> QDiv(combinedStyle.strokeWidth, I(100))]

\* applyStyle(style), lines 541-565
RECURSIVE applyStyle(_, _)
applyStyle(n, style) ==
    IF n.kind = "Group"
    THEN [n EXCEPT !.children =
              [k \in DOMAIN n.children |->
                  IF k = 1 \/ n.children[k].tag # "mob" THEN n.children[k]
                  ELSE applyStyle(n.children[k], style)]]
    ELSE Trickle(n, StyleToSet(Assign(getStyleDict(n), style)))

\* Group constructor, lines 361-370, for new Group(submobjects)
NewGroup(subs) ==
    [tag |-> "mob", id |-> 0, kind |-> "Group", vertices |-> <<>>, closed |-> FALSE,
     children |-> <<NewPath(<<>>, FALSE)>> \o subs, style |-> TwoDefaultStyle,
     opacity |-> I(1)]

\* Mobject constructor, lines 878-894
NewMobject(pth, subs, style) ==
    applyStyle([tag |-> "mob", id |-> 0, kind |-> "Mobject", vertices |-> <<>>,
                closed |-> FALSE, children |-> <<pth>> \o subs,
                style |-> TwoDefaultStyle, opacity |-> I(1)],
               Assign(DEFAULT_STYLE, style))

\* Group.clone / Mobject.clone, lines 798-827 and 896-925: a new node of the
\* same class whose children are clones of the children, in the same order
RECURSIVE clone(_)
clone(n) ==
    IF n.tag = "path" THEN PathClone(n)
    ELSE LET children == [k \in DOMAIN n.children |-> clone(n.children[k])]
             made == IF n.kind = "Group" THEN NewGroup(<<>>)
                     ELSE NewMobject(PathClone(n.children[1]), <<>>, getStyleDict(n))
         IN  [made EXCEPT !.children = children, !.opacity = n.opacity]

(***************************************************************************)
(* Bezier helpers of utils.js.                                             *)
(***************************************************************************)
\* de Casteljau split of the cubic quad = <<P0, P1, P2, P3>> at t: left part
SplitBezierLeft(quad, t) ==
    LET p01 == VLerp(quad[1], quad[2], t)
        p12 == VLerp(quad[2], quad[3], t)
        p23 == VLerp(quad[3], quad[4], t)
        p012 == VLerp(p01, p12, t)
        p123 == VLerp(p12, p23, t)
    IN  <<quad[1], p01, p012, VLerp(p012, p123, t)>>

\* de Casteljau split at t: right part
SplitBezierRight(quad, t) ==
    LET p01 == VLerp(quad[1], quad[2], t)
        p12 == VLerp(quad[2], quad[3], t)
        p23 == VLerp(quad[3], quad[4], t)
        p012 == VLerp(p01, p12, t)
        p123 == VLerp(p12, p23, t)
    IN  <<VLerp(p012, p123, t), p123, p23, quad[4]>>

\* utils.splitBezier(quad, t) as used at line 844: the part before t
splitBezier(quad, t) == SplitBezierLeft(quad, t)

\* the four control points of the curve from anchor a to anchor b
QuadOf(a, b) == <<a.p, a.r, b.l, b.p>>

\* utils.partialBezierPoints(curveStart, curveEnd, a, b): the control points
\* of the curve between the two anchors, restricted to [a, b]
partialBezierPoints(curveStart, curveEnd, a, b) ==
    LET quad == QuadOf(curveStart, curveEnd)
    IN  IF b = I(0) THEN <<quad[1], quad[1], quad[1], quad[1]>>
        ELSE SplitBezierRight(SplitBezierLeft(quad, b), QDiv(a, b))

\* utils.getManimPoints(mob): four control points per curve of the path
getManimPoints(n) ==
    LET v == points(n)
    IN  Flatten([i \in 1..(IF Len(v) = 0 THEN 0 ELSE Len(v) - 1) |-> QuadOf(v[i], v[i + 1])])

\* _.chunk(list, 4)
Chunk4(s) == [i \in 1..((Len(s) + 3) \div 4) |->
                 SubSeq(s, 4 * (i - 1) + 1, IF 4 * i <= Len(s) THEN 4 * i ELSE Len(s))]

\* utils.pathFromAnchors(anchors, handles1, handles2): an open path with one
\* anchor per position, handles1 its left and handles2 its right controls
pathFromAnchors(anchors, handles1, handles2) ==
    NewPath([i \in DOMAIN anchors |->
                NewAnchor(anchors[i], handles1[i], handles2[i],
                          IF i = 1 THEN "M" ELSE "C")], FALSE)

\* utils.integerInterpolate(start, end, alpha): the index of the segment that
\* alpha falls in and how far into it
integerInterpolate(start, end, alpha) ==
    IF QLe(I(1), alpha) THEN <<end - 1, I(1)>>
    ELSE IF QLe(alpha, I(0)) THEN <<start, I(0)>>
    ELSE LET scaled == QMul(I(end - start), alpha)
         IN  <<start + QFloor(scaled), QSub(scaled, I(QFloor(scaled)))>>

(***************************************************************************)
(* Geometry of a node.                                                     *)
(***************************************************************************)
\* Math.min / Math.max: NaN if either argument is
MathMin(a, b) == IF IsNaN(a) \/ IsNaN(b) THEN NaN ELSE QMin(a, b)

MathMax(a, b) == IF IsNaN(a) \/ IsNaN(b) THEN NaN ELSE QMax(a, b)

\* getMobjectHeirarchy(), lines 771-777: the node, then the hierarchies of its
\* submobjects, parent before children
RECURSIVE getMobjectHeirarchy(_)
getMobjectHeirarchy(n) ==
    <<n>> \o Flatten([k \in 1..(Len(n.children) - 1) |->
                         getMobjectHeirarchy(n.children[k + 1])])

RECURSIVE FoldCoord(_, _, _, _)
FoldCoord(op(_, _), s, c, acc) ==
    IF s = <<>> THEN acc
    ELSE FoldCoord(op, Tail(s), c, IF acc = <<>> THEN Head(s).p[c] ELSE op(acc, Head(s).p[c]))

\* lines 710-717: the points of every member of the hierarchy
AllPoints(h) == Flatten([i \in DOMAIN h |-> points(h[i])])

\* lines 706-718: the centre of the bounding box of the points ps
BoxCenter(ps) ==
    <<QDiv(QAdd(FoldCoord(MathMax, ps, 1, <<>>), FoldCoord(MathMin, ps, 1, <<>>)), I(2)),
      QDiv(QAdd(FoldCoord(MathMax, ps, 2, <<>>), FoldCoord(MathMin, ps, 2, <<>>)), I(2))>>

\* getPointCenter(), lines 698-719
getPointCenter(n) ==
    IF Len(points(n)) = 0 THEN Pt(0, 0) ELSE BoxCenter(AllPoints(getMobjectHeirarchy(n)))

\* getPixelCenter(), lines 751-758.  A node without points has no width or
\* height, so both coordinates are NaN; otherwise the centre of the bounding
\* rectangle the renderer reports.
getPixelCenter(n) ==
    IF Len(points(n)) = 0 THEN NaNPt ELSE getPointCenter(n)

\* utils.pathFromAnchors([center], [center], [center]), lines 423 and 683
PointPath(center) == pathFromAnchors(<<center>>, <<center>>, <<center>>)

\* getPointMobject(), lines 681-684
getPointMobject(n) == NewMobject(PointPath(getPointCenter(n)), <<>>, DEFAULT_STYLE)

(***************************************************************************)
(* Alignment: alignData and the routines it calls.                         *)
(***************************************************************************)
\* the node with the vertices of its path replaced (this.children[0].vertices = ...)
WithVertices(n, v) == [n EXCEPT !.children[1].vertices = v]

\* setAnchorsFromPoints(points), lines 612-630
setAnchorsFromPoints(n, pts) ==
    LET m == Len(pts) \div 4
        anchors == [k \in 1..(m + 1) |->
            NewAnchor(IF k <= m THEN pts[4 * (k - 1) + 1]
                      ELSE IF m = 0 THEN Pt(0, 0) ELSE pts[4 * m],
                      IF k >= 2 THEN pts[4 * (k - 2) + 3] ELSE Pt(0, 0),
                      IF k <= m THEN pts[4 * (k - 1) + 2] ELSE Pt(0, 0),
                      "C")]
    IN  WithVertices(n, anchors)

\* the split factors with the slot index rounded up instead of down
SplitFactorsRoundUp(curNum, target) ==
    [i \in 1..(IF curNum < 0 THEN 0 ELSE curNum) |->
        Cardinality({x \in 0..(target - 1) :
                        (x * curNum + target - 1) \div target = i - 1})]

\* the split factors of lines 649-664 and 465-471: how many of the target
\* slots 0..target-1 fall on each of the curNum existing items
SplitFactors(curNum, target) ==
    [i \in 1..(IF curNum < 0 THEN 0 ELSE curNum) |->
        Cardinality({x \in 0..(target - 1) : (x * curNum) \div target = i - 1})]

\* np.linspace(0, 1, splitFactor + 1)
Linspace01(num) == [j \in 1..num |-> Q(j - 1, num - 1)]

\* lines 635-639: a single point is repeated k times on the path, and the
\* function goes on, there being no return
PushedSinglePoint(n, k) ==
    IF Len(points(n)) = 1
    THEN WithVertices(n, points(n) \o [i \in 1..k |-> AnchorClone(points(n)[1])])
    ELSE n

\* lines 671-676: the curve from p to q cut at the given alphas
CurvePieces(p, q, alphas) ==
    Flatten([j \in 1..(Len(alphas) - 1) |->
                partialBezierPoints(p, q, alphas[j], alphas[j + 1])])

\* lines 666-677: every curve of the path cut into splitFactors[i] pieces
SplitCurves(pts, splitFactors) ==
    Flatten([i \in DOMAIN splitFactors |->
                CurvePieces(pts[i], pts[i + 1], Linspace01(splitFactors[i] + 1))])

\* lines 641-678 with curNum = this.points().length - 1
addPointsTo(pushed, curNum, k) ==
    [mob |-> pushed,
     newPoints |-> SplitCurves(points(pushed), SplitFactors(curNum, curNum + k))]

\* addPoints(n), lines 632-679: the node (a path of one point is given n
\* copies of it) and the control points returned
addPoints(n, k) == addPointsTo(PushedSinglePoint(n, k), Len(points(n)) - 1, k)

\* new Two.Anchor(center[0], center[1], center[0], ...), lines 507-512
CenterAnchor(center) == NewAnchor(center, center, center, "C")

\* lines 502-514 for one of the two nodes: a node without points is given one
SeedPoint(mob, this) ==
    IF Len(points(mob)) = 0
    THEN WithVertices(mob, points(mob) \o <<CenterAnchor(getPixelCenter(this))>>)
    ELSE mob

\* line 528: fewer.setAnchorsFromPoints(newPoints)
SetGrown(added) == setAnchorsFromPoints(added.mob, added.newPoints)

\* lines 524-528: the side with fewer points grown to the length of the other
GrowTo(fewer, more) == SetGrown(addPoints(fewer, Len(points(more)) - Len(points(fewer))))

\* lines 516-528, both sides having a point
alignPointsSeeded(this1, other1) ==
    IF Len(points(this1)) < Len(points(other1))
    THEN <<GrowTo(this1, other1), other1>>
    ELSE <<this1, GrowTo(other1, this1)>>

\* lines 502-528 once this has a point: other is given one if it has none
alignPointsFrom(this1, other) == alignPointsSeeded(this1, SeedPoint(other, this1))

\* alignPoints(other), lines 497-529: the pair <<this, other>> afterwards
alignPoints(this, other) ==
    IF Len(points(this)) = Len(points(other)) THEN <<this, other>>
    ELSE alignPointsFrom(SeedPoint(this, this), other)

\* pushSelfIntoSubmobjects(), lines 419-425
pushSelfIntoSubmobjects(n) ==
    [n EXCEPT !.children =
        <<PointPath(getPointCenter(n))>>
        \o Tail(n.children)
        \o <<applyStyle(NewMobject(PathClone(path(n)), <<>>, DEFAULT_STYLE), getStyleDict(n))>>]

\* nullPointAlign(other), lines 427-433
nullPointAlign(this, other) ==
    IF Len(points(this)) = 0 /\ Len(points(other)) # 0
    THEN <<this, pushSelfIntoSubmobjects(other)>>
    ELSE IF Len(points(other)) = 0 /\ Len(points(this)) # 0
    THEN <<pushSelfIntoSubmobjects(this), other>>
    ELSE <<this, other>>

\* chroma(colour).alpha(0).hex(), lines 481-482
Transparent(colour) == Colour(colour.rgb, 0)

\* lines 474-485: the clones that replace submobject sub when its split factor is sf
ClonesOf(sub, sf) ==
    LET oldStyle == getStyleDict(sub)
    IN  <<clone(sub)>> \o
        [j \in 1..(sf - 1) |->
            applyStyle(clone(sub), [strokeColor |-> Transparent(oldStyle.strokeColor),
                                    fillColor |-> Transparent(oldStyle.fillColor)])]

\* addSubmobjects aiming one past the requested number
addSubmobjectsOneMore(n, k) ==
    LET currentNumSubmobjects == Len(submobjects(n))
        target == currentNumSubmobjects + k + 1
        splitFactors == SplitFactors(currentNumSubmobjects, target)
    IN  IF currentNumSubmobjects = 0
        THEN [n EXCEPT !.children = n.children \o [i \in 1..(k + 1) |-> getPointMobject(n)]]
        ELSE [n EXCEPT !.children =
                 <<n.children[1]>> \o
                 Flatten([i \in 1..currentNumSubmobjects |->
                             ClonesOf(submobjects(n)[i], splitFactors[i])])]

\* addSubmobjects(n), lines 453-495
addSubmobjects(n, k) ==
    LET currentNumSubmobjects == Len(submobjects(n))
        target == currentNumSubmobjects + k
        splitFactors == SplitFactors(currentNumSubmobjects, target)
    IN  IF currentNumSubmobjects = 0
        THEN [n EXCEPT !.children = n.children \o [i \in 1..k |-> getPointMobject(n)]]
        ELSE [n EXCEPT !.children =
                 <<n.children[1]>> \o
                 Flatten([i \in 1..currentNumSubmobjects |->
                             ClonesOf(submobjects(n)[i], splitFactors[i])])]

\* alignSubmobjects growing the side that already has more
alignSubmobjectsWrongSide(this, other) ==
    LET a == Len(submobjects(this))
        b == Len(submobjects(other))
    IN  IF a = b THEN <<this, other>>
        ELSE IF a < b THEN <<this, addSubmobjects(other, b - a)>>
        ELSE <<addSubmobjects(this, a - b), other>>

\* alignSubmobjects(other), lines 435-451
alignSubmobjects(this, other) ==
    LET a == Len(submobjects(this))
        b == Len(submobjects(other))
    IN  IF a = b THEN <<this, other>>
        ELSE IF a < b THEN <<addSubmobjects(this, b - a), other>>
        ELSE <<this, addSubmobjects(other, a - b)>>

\* alignData(other), lines 408-417.  x and y are the two nodes afterwards;
\* ok tells whether every assertion of line 413 held (the recursion of line
\* 414 needs a partner for each submobject, so it stops where one failed)
RECURSIVE alignData(_, _)
\* lines 414-416: the two nodes with their submobjects aligned pairwise
alignDataSubs(x, y, subs) ==
    [x |-> [x EXCEPT !.children = <<x.children[1]>> \o [i \in DOMAIN subs |-> subs[i].x]],
     y |-> [y EXCEPT !.children = <<y.children[1]>> \o [i \in DOMAIN subs |-> subs[i].y]],
     ok |-> \A i \in DOMAIN subs : subs[i].ok]

\* lines 412-416: the assertion and the recursion, for the pair that
\* alignPoints left
alignDataBelow(xy) ==
    IF Len(submobjects(xy[1])) # Len(submobjects(xy[2]))
    THEN [x |-> xy[1], y |-> xy[2], ok |-> FALSE]
    ELSE alignDataSubs(xy[1], xy[2],
                       [i \in 1..Len(submobjects(xy[1])) |->
                           alignData(submobjects(xy[1])[i], submobjects(xy[2])[i])])

\* line 411 on the pair that alignSubmobjects left
alignPointsOfPair(xy) == alignPoints(xy[1], xy[2])

\* line 410 on the pair that nullPointAlign left
alignSubmobjectsOfPair(xy) == alignSubmobjects(xy[1], xy[2])

alignData(this, other) ==
    alignDataBelow(alignPointsOfPair(alignSubmobjectsOfPair(nullPointAlign(this, other))))

(***************************************************************************)
(* Interpolation of one node: pointwiseBecomePartial, Group.interpolate    *)
(* and the style interpolation of utils.js.                                *)
(***************************************************************************)
\* utils.pathFromManimPoints(points, commands): the path whose curves have
\* the given control points, four per curve; no points give no anchors
pathFromManimPoints(pts, commands) ==
    LET m == Len(pts) \div 4
        anchors == [k \in 1..(IF m = 0 THEN 0 ELSE m + 1) |->
            NewAnchor(IF k <= m THEN pts[4 * (k - 1) + 1] ELSE pts[4 * m],
                      IF k >= 2 THEN pts[4 * (k - 2) + 3] ELSE pts[1],
                      IF k <= m THEN pts[4 * (k - 1) + 2] ELSE pts[4 * m],
                      commands[k])]
    IN  NewPath(anchors, FALSE)

\* a partial path of whole curves only, without the split one
PartialCoeffsWhole(bezierQuads, bIndex, bResidue) == SubSeq(bezierQuads, 1, bIndex)

\* lines 841-848: the whole curves below bIndex and the split one
PartialCoeffs(bezierQuads, bIndex, bResidue) ==
    IF bIndex < Len(bezierQuads) /\ bIndex >= 0
    THEN SubSeq(bezierQuads, 1, bIndex) \o <<splitBezier(bezierQuads[bIndex + 1], bResidue)>>
    ELSE SubSeq(bezierQuads, 1, bIndex)

\* lines 849-860: the anchors of the partial path, with the commands of other
PartialVertices(other, newPathCoeffs) ==
    pathFromManimPoints(Flatten(newPathCoeffs),
                        [i \in 1..Min2(Len(points(other)), Len(newPathCoeffs) + 1) |->
                            points(other)[i].cmd]).vertices

\* line 864: this.applyStyle(this.getStyleDict())
ReapplyStyle(n) == applyStyle(n, getStyleDict(n))

\* lines 858-864: the path is removed and the new one is added, which puts it
\* behind the submobjects
ReplacePath(this, vertices) ==
    ReapplyStyle([this EXCEPT !.children =
        Tail(this.children)
        \o <<[PathClone(path(this)) EXCEPT !.vertices = vertices, !.closed = FALSE]>>])

\* lines 839-864 for the index and residue ii: splitting a curve that does
\* not exist (line 844) throws
BecomePartialAt(this, other, bezierQuads, ii) ==
    IF ii[1] < Len(bezierQuads) /\ ii[1] < 0 THEN [node |-> this, crash |-> TRUE]
    ELSE [node |-> ReplacePath(this, PartialVertices(other,
                                         PartialCoeffs(bezierQuads, ii[1], ii[2]))),
          crash |-> FALSE]

\* lines 833-864 for the curves bezierQuads of other
BecomePartialOf(this, other, bezierQuads, b) ==
    BecomePartialAt(this, other, bezierQuads, integerInterpolate(0, Len(bezierQuads), b))

\* pointwiseBecomePartial(other, a, b), lines 830-865.  crash: the call
\* ended in a TypeError (no curve to split)
pointwiseBecomePartial(this, other, a, b) ==
    BecomePartialOf(this, other, Chunk4(getManimPoints(other)), b)

\* mix of two colours: the rgb parts mixed at t, the alpha bytes interpolated
ColourMix(c1, c2, t) ==
    Colour(IF c1.rgb = c2.rgb \/ t = I(0) THEN c1.rgb
           ELSE IF t = I(1) THEN c2.rgb
           ELSE <<c1.rgb[1], c2.rgb[1], t>>,
           QRound(NumLerp(I(c1.a), I(c2.a), t)))

\* utils.interpolateStyles(style1, style2, alpha)
interpolateStyles(style1, style2, alpha) ==
    [strokeColor |-> ColourMix(style1.strokeColor, style2.strokeColor, alpha),
     strokeOpacity |-> NumLerp(style1.strokeOpacity, style2.strokeOpacity, alpha),
     fillColor |-> ColourMix(style1.fillColor, style2.fillColor, alpha),
     fillOpacity |-> NumLerp(style1.fillOpacity, style2.fillOpacity, alpha),
     strokeWidth |-> NumLerp(style1.strokeWidth, style2.strokeWidth, alpha)]

\* lines 783-786: the i-th new anchor, a clone of mobject1's moved towards mobject2's
LerpAnchor(a1, a2, alpha) ==
    [AnchorClone(a1) EXCEPT !.p = VLerp(a1.p, a2.p, alpha),
                            !.l = VLerp(a1.l, a2.l, alpha),
                            !.r = VLerp(a1.r, a2.r, alpha)]

\* Group.interpolate(mobject1, mobject2, alpha), lines 779-796.  crash: one of
\* the two has no i-th point for a point of this (a TypeError)
GroupInterpolate(this, mobject1, mobject2, alpha) ==
    LET num == Len(points(this))
    IN  IF mobject1.tag # "mob" \/ mobject2.tag # "mob"
           \/ Len(points(mobject1)) < num \/ Len(points(mobject2)) < num
        THEN [node |-> this, crash |-> TRUE]
        ELSE LET newAnchors == [i \in 1..num |->
                     LerpAnchor(points(mobject1)[i], points(mobject2)[i], alpha)]
             IN  [node |-> applyStyle(WithVertices(this, newAnchors),
                                      interpolateStyles(getStyleDict(mobject1),
                                                        getStyleDict(mobject2), alpha)),
                  crash |-> FALSE]

(***************************************************************************)
(* Object identity.                                                        *)
(***************************************************************************)
IsAnchor(o) == "cmd" \in DOMAIN o

\* the objects an object holds: a path its vertices, a node its children
Parts(o) == IF o.tag = "path" THEN o.vertices ELSE o.children

RECURSIVE Ids(_)
Ids(o) ==
    {o.id} \cup (IF IsAnchor(o) THEN {}
                 ELSE UNION {Ids(Parts(o)[k]) : k \in DOMAIN Parts(o)})

RECURSIVE CountNew(_)
CountNew(o) ==
    (IF o.id = 0 THEN 1 ELSE 0)
    + (IF IsAnchor(o) THEN 0
       ELSE SumSeq([k \in DOMAIN Parts(o) |-> CountNew(Parts(o)[k])]))

\* every object of o that has no id yet is given the next id after base
RECURSIVE Relabel(_, _)
Relabel(o, base) ==
    LET own == IF o.id = 0 THEN 1 ELSE 0
        newid == IF o.id = 0 THEN base + 1 ELSE o.id
    IN  IF IsAnchor(o) THEN [o EXCEPT !.id = newid]
        ELSE LET ps == Parts(o)
                 off(k) == base + own + SumSeq([j \in 1..(k - 1) |-> CountNew(ps[j])])
                 newps == [k \in DOMAIN ps |-> Relabel(ps[k], off(k))]
             IN  IF o.tag = "path"
                 THEN [o EXCEPT !.id = newid, !.vertices = newps]
                 ELSE [o EXCEPT !.id = newid, !.children = newps]

SetMax(S) == IF S = {} THEN 0 ELSE CHOOSE m \in S : \A x \in S : x <= m

\* the trees of roots, the new objects among them given ids no object has
Freshen(roots) ==
    LET top == SetMax(UNION {Ids(roots[k]) : k \in DOMAIN roots})
    IN  [k \in DOMAIN roots |->
            Relabel(roots[k], top + SumSeq([j \in 1..(k - 1) |-> CountNew(roots[j])]))]

\* the tree with identities forgotten: what two trees with equal content share
RECURSIVE Content(_)
Content(o) ==
    IF IsAnchor(o) THEN [o EXCEPT !.id = 0]
    ELSE IF o.tag = "path"
    THEN [o EXCEPT !.id = 0, !.vertices = [k \in DOMAIN o.vertices |-> Content(o.vertices[k])]]
    ELSE [o EXCEPT !.id = 0, !.children = [k \in DOMAIN o.children |-> Content(o.children[k])]]

\* no tree: the value of a field that has not been assigned
Nil == [tag |-> "nil", id |-> -1, kind |-> "Nil", vertices |-> <<>>, closed |-> FALSE,
        children |-> <<>>, style |-> TwoDefaultStyle, opacity |-> I(1)]

\* the trees after tree k of them was written: a field that references the
\* same object sees the write.  Objects made while an animation runs keep
\* id 0: each is referenced from the one place it was put in.
Written(trees, k) ==
    [j \in DOMAIN trees |->
        IF trees[k].id > 0 /\ trees[j].id = trees[k].id THEN trees[k] ELSE trees[j]]

(***************************************************************************)
(* The Animation engine.  An animation is a record of its fields; the      *)
(* trees it references are                                                 *)
(*   trees[1] mobject, trees[2] startingMobject,                           *)
(*   trees[3] targetMobject, trees[4] targetCopy.                          *)
(* crash is TRUE when the call ended in an uncaught TypeError; what had    *)
(* been written before the throw stays written.                            *)
(***************************************************************************)
\* utils.linear
linear(t) == t

\* utils.smooth: an ease-in-out curve from 0 to 1
smooth(t) == QSub(QMul(I(3), QMul(t, t)), QMul(I(2), QMul(t, QMul(t, t))))

\* this.rateFunc(alpha)
ApplyRateFunc(f, alpha) == IF f = "linear" THEN linear(alpha) ELSE smooth(alpha)

\* a getSubAlpha that starts node index at time index, whatever the lag ratio
getSubAlphaUnitLag(alpha, index, numSubmobjects, lag) ==
    IF QLe(alpha, I(index)) THEN I(0)
    ELSE IF QLe(I(index + 1), alpha) THEN I(1)
    ELSE QSub(alpha, I(index))

\* a getSubAlpha whose full runtime is 1, whatever the lag ratio
getSubAlphaUnscaled(alpha, index, numSubmobjects, lag) ==
    IF QLe(alpha, QMul(lag, I(index))) THEN I(0)
    ELSE IF QLe(QAdd(QMul(lag, I(index)), I(1)), alpha) THEN I(1)
    ELSE QSub(alpha, QMul(lag, I(index)))

\* a getSubAlpha without the branch of lines 109-110
getSubAlphaOvershoot(alpha, index, numSubmobjects, lag) ==
    IF QLe(QMul(QAdd(QMul(I(numSubmobjects - 1), lag), I(1)), alpha), QMul(lag, I(index))) THEN I(0)
    ELSE QSub(QMul(QAdd(QMul(I(numSubmobjects - 1), lag), I(1)), alpha), QMul(lag, I(index)))

\* line 102: console.assert(0 <= alpha && alpha <= 1)
SubAlphaAssert(alpha) == QLe(I(0), alpha) /\ QLe(alpha, I(1))

\* line 832: console.assert(0 <= a && a <= 1 && 0 <= b && b <= 1 && a <= b, a, b)
PartialAssert(a, b) ==
    QLe(I(0), a) /\ QLe(a, I(1)) /\ QLe(I(0), b) /\ QLe(b, I(1)) /\ QLe(a, b)

\* the (a, b) with which the per-node step of class v calls
\* pointwiseBecomePartial at the sub-alpha alpha: lines 171, 216 and 219
PartialCalls(v, alpha) ==
    CASE v = "ShowCreation" -> IF QLt(I(0), alpha) THEN {<<I(0), alpha>>} ELSE {}
      [] v = "Write" -> IF QLe(alpha, Q(1, 2)) THEN {<<I(0), QMul(I(2), alpha)>>}
                        ELSE {<<I(0), I(1)>>}
      [] OTHER -> {}

\* getSubAlpha(alpha, index, numSubmobjects), lines 100-114
getSubAlpha(alpha, index, numSubmobjects, lag) ==
    LET fullRuntime == QAdd(QMul(I(numSubmobjects - 1), lag), I(1))
        fullRuntimeAlpha == QMul(fullRuntime, alpha)
        startTime == QMul(lag, I(index))
        endTime == QAdd(startTime, I(1))
    IN  IF QLe(fullRuntimeAlpha, startTime) THEN I(0)
        ELSE IF QLe(endTime, fullRuntimeAlpha) THEN I(1)
        ELSE QSub(fullRuntimeAlpha, startTime)

\* a tree on which getMobjectHeirarchy() and points() run without a
\* TypeError: in every node children[0] is the path and the rest are nodes
RECURSIVE WellFormed(_)
WellFormed(n) ==
    /\ n.tag = "mob"
    /\ Len(n.children) >= 1
    /\ n.children[1].tag = "path"
    /\ \A k \in 2..Len(n.children) : WellFormed(n.children[k])

\* the addresses below, seen from the parent of submobject k
UnderChild(k, below) == [i \in DOMAIN below |-> <<k>> \o below[i]]

\* where the members of getMobjectHeirarchy() sit in the tree: for each, the
\* ordinals of the submobjects leading to it from the root
RECURSIVE HeirarchyAddrs(_)
HeirarchyAddrs(n) ==
    <<<<>>>> \o Flatten([k \in 1..(Len(n.children) - 1) |->
                   UnderChild(k, HeirarchyAddrs(n.children[k + 1]))])

\* the place in n.children of its j-th node child
MobChildIndex(n, j) ==
    CHOOSE i \in DOMAIN n.children :
        /\ n.children[i].tag = "mob"
        /\ Cardinality({m \in 1..i : n.children[m].tag = "mob"}) = j

RECURSIVE NodeAt(_, _)
NodeAt(n, addr) ==
    IF addr = <<>> THEN n
    ELSE NodeAt(n.children[MobChildIndex(n, Head(addr))], Tail(addr))

RECURSIVE SetAt(_, _, _)
SetAt(n, addr, v) ==
    IF addr = <<>> THEN v
    ELSE LET i == MobChildIndex(n, Head(addr))
         IN  [n EXCEPT !.children[i] = SetAt(n.children[i], Tail(addr), v)]

\* h.filter(submob => submob.points().length > 0), line 84
WithPoints(h) == SelectSeq(h, LAMBDA m : Len(points(m)) > 0)

\* h[i], undefined past the end
ItemAt(h, i) == IF i \in DOMAIN h THEN h[i] ELSE Nil

\* _.last(vertices).equals(_.last(vertices)), line 218: the two positions are
\* closer than 0.0001, which for the coordinates used here is equality
LastVertexEquals(v, w) == ~IsNaN(Last(v).p[1]) /\ ~IsNaN(Last(v).p[2]) /\ Last(v).p = Last(w).p

\* ShowCreation.interpolateSubmobject, lines 169-173
ShowCreationSubmobject(alpha, submob, startingSubmobject) ==
    IF QLt(I(0), alpha)
    THEN IF startingSubmobject.tag # "mob" THEN [node |-> submob, crash |-> TRUE]
         ELSE pointwiseBecomePartial(submob, startingSubmobject, I(0), alpha)
    ELSE [node |-> submob, crash |-> FALSE]

\* line 221: submob.applyStyle({ fillOpacity: 2 * alpha - 1 }) on the whole path
WriteFill(alpha, whole) ==
    IF whole.crash THEN whole
    ELSE [node |-> applyStyle(whole.node, [fillOpacity |-> QSub(QMul(I(2), alpha), I(1))]),
          crash |-> FALSE]

\* Write.interpolateSubmobject, lines 214-223
WriteSubmobject(alpha, submob, startingSubmobject) ==
    IF startingSubmobject.tag # "mob" THEN [node |-> submob, crash |-> TRUE]
    ELSE IF QLe(alpha, Q(1, 2))
    THEN pointwiseBecomePartial(submob, startingSubmobject, I(0), QMul(I(2), alpha))
    ELSE WriteFill(alpha,
                   IF LastVertexEquals(points(submob), points(startingSubmobject))
                   THEN [node |-> submob, crash |-> FALSE]
                   ELSE pointwiseBecomePartial(submob, startingSubmobject, I(0), I(1)))

\* FadeIn.interpolateSubmobject, lines 267-273
FadeInSubmobject(alpha, mob, startingMob) ==
    IF startingMob.tag # "mob" THEN [node |-> mob, crash |-> TRUE]
    ELSE LET style2 == getStyleDict(startingMob)
             style1 == [style2 EXCEPT !.strokeOpacity = I(0), !.fillOpacity = I(0)]
         IN  [node |-> applyStyle(mob, interpolateStyles(style1, style2, alpha)),
              crash |-> FALSE]

\* the classes whose instances have an interpolateSubmobject: those that
\* declare one (lines 156, 169, 214, 267).  Animation declares its own
\* static (line 124), which puts it on the class and not on the instances.
HasInterpolateSubmobject(v) == v \in {"ReplacementTransform", "ShowCreation", "Write", "FadeIn"}

\* this.interpolateSubmobject(subAlpha, ...args), line 65, by class; calling
\* what an instance does not have throws a TypeError
interpolateSubmobject(v, alpha, submob, start, target) ==
    CASE v = "ShowCreation" -> ShowCreationSubmobject(alpha, submob, start)
      [] v = "Write" -> WriteSubmobject(alpha, submob, start)
      [] v = "FadeIn" -> FadeInSubmobject(alpha, submob, start)
      [] v = "ReplacementTransform" -> GroupInterpolate(submob, start, target, alpha)
      [] OTHER -> [node |-> submob, crash |-> ~HasInterpolateSubmobject(v)]

\* getCopiesForInterpolation(), lines 152-154, 175-177, 225-227, 275-277,
\* and that of Animation, lines 44-46
getCopiesForInterpolation(a) ==
    IF a.variant = "ReplacementTransform" THEN <<a.trees[1], a.trees[2], a.trees[4]>>
    ELSE IF a.variant \in {"ShowCreation", "Write", "FadeIn"} THEN <<a.trees[1], a.trees[2]>>
    ELSE <<a.trees[1]>>

\* one pass of the loop of lines 63-66: interpolateSubmobject has changed the
\* node at addr in place, or thrown
LoopStep(acc, addr, r) == [mobject |-> SetAt(acc.mobject, addr, r.node), crash |-> r.crash]

\* the loop of interpolateMobject, lines 63-66, from its i-th round on; the
\* live nodes are found by their place in the tree, the others were listed
\* before the first round
RECURSIVE InterpolateLoop(_, _, _, _, _, _)
InterpolateLoop(a, alpha, addrs, lists, i, acc) ==
    IF i > Len(addrs) \/ acc.crash THEN acc
    ELSE InterpolateLoop(a, alpha, addrs, lists, i + 1,
             LoopStep(acc, addrs[i],
                 interpolateSubmobject(a.variant,
                                       getSubAlpha(alpha, i - 1, Len(addrs), a.lagRatio),
                                       NodeAt(acc.mobject, addrs[i]),
                                       IF Len(lists) >= 2 THEN ItemAt(lists[2], i) ELSE Nil,
                                       IF Len(lists) >= 3 THEN ItemAt(lists[3], i) ELSE Nil)))

\* interpolateMobject(alpha), lines 57-67, with getAllArgsToInterpolateSubmobject,
\* lines 80-94; FadeOut's is lines 287-289 and Wait's line 311
interpolateMobject(a, alpha) ==
    LET live == a.trees[1]
        copies == getCopiesForInterpolation(a)
    IN  CASE a.variant = "FadeOut" ->
                [mobject |-> [live EXCEPT !.opacity = QSub(I(1), alpha)], crash |-> FALSE]
          [] a.variant = "Wait" -> [mobject |-> live, crash |-> FALSE]
          [] OTHER ->
                IF \E k \in DOMAIN copies : ~WellFormed(copies[k])
                THEN [mobject |-> live, crash |-> TRUE]
                ELSE LET all == HeirarchyAddrs(live)
                         addrs == SelectSeq(all, LAMBDA ad : Len(points(NodeAt(live, ad))) > 0)
                         lists == [k \in DOMAIN copies |->
                                      WithPoints(getMobjectHeirarchy(copies[k]))]
                     IN  InterpolateLoop(a, alpha, addrs, lists, 1,
                                         [mobject |-> live, crash |-> FALSE])

\* the animation after a call that wrote its live tree
AfterLive(a, r) ==
    [a EXCEPT !.trees = Written([a.trees EXCEPT ![1] = r.mobject], 1),
              !.crash = r.crash]

\* an interpolate that hands alpha to the rate function as it came
ClampNot(alpha) == alpha

\* lines 49-53: alpha as it is handed to the rate function
Clamp(alpha) ==
    IF QLt(alpha, I(0)) THEN I(0)
    ELSE IF QLt(I(1), alpha) THEN I(1) ELSE alpha

\* interpolate(alpha), lines 48-55
interpolate(a, alpha) ==
    AfterLive(a, interpolateMobject(a, ApplyRateFunc(a.rateFunc, Clamp(alpha))))

\* a createStartingMobject that hands out the live tree itself
createStartingMobjectNoClone(a) == a.trees[1]

\* createStartingMobject(), lines 120-122; Wait's, line 317, returns nothing
createStartingMobject(a) ==
    IF a.variant = "Wait" THEN Nil ELSE clone(a.trees[1])

\* Animation.begin(), lines 22-34
AnimationBegin(a) ==
    LET withStart == [a EXCEPT !.trees =
                         Written([a.trees EXCEPT ![2] = createStartingMobject(a)], 2)]
    IN  interpolate(withStart, I(0))

\* a begin that aligns against the target itself
CloneOfTargetNoClone(t) == t

\* this.targetMobject.clone(), line 145
CloneOfTarget(t) == clone(t)

\* lines 148-149: both aligned trees are in place when super.begin() runs
BeginAligned(a, copied, al) ==
    AnimationBegin([a EXCEPT !.trees =
        Written(Written([copied EXCEPT ![1] = al.x, ![4] = al.y], 1), 4)])

\* line 148: this.mobject.alignData(this.targetCopy)
BeginCopied(a, copied) == BeginAligned(a, copied, alignData(copied[1], copied[4]))

\* ReplacementTransform.begin(), lines 141-150
ReplacementTransformBegin(a) ==
    BeginCopied(a, Written([a.trees EXCEPT ![4] = CloneOfTarget(a.trees[3])], 4))

\* line 211: this.startingMobject.applyStyle({ fillOpacity: 0 }) after
\* super.begin()
WriteBegun(begun) ==
    IF begun.crash THEN begun
    ELSE [begun EXCEPT !.trees =
             Written([begun.trees EXCEPT
                         ![2] = applyStyle(begun.trees[2], [fillOpacity |-> I(0)])], 2)]

\* Write.begin(), lines 208-212
WriteBegin(a) ==
    WriteBegun(AnimationBegin([a EXCEPT !.trees =
        Written([a.trees EXCEPT
                    ![1] = applyStyle(a.trees[1], [strokeWidth |-> I(1),
                                                   fillOpacity |-> I(0)])], 1)]))

\* begin(), by class
begin(a) ==
    CASE a.variant = "ReplacementTransform" -> ReplacementTransformBegin(a)
      [] a.variant = "Write" -> WriteBegin(a)
      [] OTHER -> AnimationBegin(a)

\* Write.setConfigFromLength(length), lines 202-204: the lag ratio of a Write
\* constructed without one
WriteLagRatio(m) == QMin(QDiv(I(4), I(Len(getMobjectHeirarchy(m)))), Q(1, 5))

(***************************************************************************)
(* The trees the operations are run on.                                    *)
(***************************************************************************)
\* a path has at most MaxPoints anchors
MaxPoints == 5

\* a node is built with at most MaxSubs submobjects
MaxSubs == 2

\* addSubmobjects and addPoints are asked for at most MaxExtra more
MaxExtra == 3

StyleA == [strokeColor |-> Colour(Pure("red"), 255)]

StyleB == [strokeColor |-> Colour(Pure("blue"), 255), strokeOpacity |-> Q(1, 2),
           fillColor |-> Colour(Pure("green"), 255), fillOpacity |-> I(1),
           strokeWidth |-> I(1)]

\* position of the i-th anchor of a shape's outline
Corner(i) == Pt(6 * i, 6 * (i % 2))

\* a closed outline of k anchors joined by curves; k = 1 is a point,
\* k = 0 the empty path of new Two.Path()
PolyPath(k) ==
    IF k = 0 THEN NewPath(<<>>, FALSE)
    ELSE LET anchor(i) ==
                 LET c == Corner(i)
                 IN  NewAnchor(c,
                               IF i = 1 THEN c ELSE <<QSub(c[1], I(2)), QAdd(c[2], I(3))>>,
                               IF i = k THEN c ELSE <<QAdd(c[1], I(2)), QAdd(c[2], I(3))>>,
                               IF i = 1 THEN "M" ELSE "C")
         IN  NewPath([i \in 1..k |-> anchor(i)], k > 1)

\* a Mobject of k points without submobjects
Leaf(k) == NewMobject(PolyPath(k), <<>>, IF k % 2 = 0 THEN StyleA ELSE StyleB)

\* the first j of a fixed list of leaves
Kids(j) == [i \in 1..j |-> Leaf(IF i = 1 THEN 3 ELSE i)]

Shapes ==
    {Leaf(k) : k \in 0..MaxPoints}
    \cup {NewGroup(Kids(j)) : j \in 0..MaxSubs}
    \cup {NewMobject(PolyPath(3), Kids(j), StyleA) : j \in 1..MaxSubs}
    \cup {NewGroup(<<NewGroup(Kids(1)), Leaf(2)>>)}

(***************************************************************************)
(* SpecAlign: the alignment routines run on a pair of trees.  mobject is   *)
(* the receiver (this) and targetCopy the argument (other), as in line     *)
(* 148.                                                                    *)
(***************************************************************************)
NoHist == [x |-> Nil, y |-> Nil, x0 |-> Nil, y0 |-> Nil, ok |-> TRUE, k |-> 0]

\* the two trees of the step, as distinct objects
AlignStart(fresh) == mobject = fresh[1] /\ targetCopy = fresh[2]

AlignInit ==
    /\ \E a \in Shapes, b \in Shapes : AlignStart(Freshen(<<a, b>>))
    /\ pc = "unaligned"
    /\ variant = "none"
    /\ rateFunc = "linear"
    /\ lagRatio = I(0)
    /\ startingMobject = Nil
    /\ targetMobject = Nil
    /\ lastAlpha = I(0)
    /\ hist = NoHist

AlignFrame == UNCHANGED <<variant, rateFunc, lagRatio, startingMobject, targetMobject, lastAlpha>>

\* the two trees a step leaves, the objects it created given identities
AlignStore(both, fresh) ==
    /\ mobject' = fresh[1]
    /\ targetCopy' = IF both THEN fresh[2] ELSE targetCopy

\* what alignData returned is stored, with the trees it was called on
AlignDataDone(r) ==
    /\ AlignStore(TRUE, Freshen(<<r.x, r.y>>))
    /\ hist' = [x |-> mobject, y |-> targetCopy,
                x0 |-> IF pc = "unaligned" THEN mobject ELSE hist.x0,
                y0 |-> IF pc = "unaligned" THEN targetCopy ELSE hist.y0,
                ok |-> r.ok, k |-> 0]

\* mobject.alignData(targetCopy), a first and a second time
AlignDataStep ==
    /\ pc \in {"unaligned", "aligned"}
    /\ AlignDataDone(alignData(mobject, targetCopy))
    /\ pc' = IF pc = "unaligned" THEN "aligned" ELSE "realigned"
    /\ AlignFrame

\* mobject.alignPoints(targetCopy)
AlignPointsStep ==
    /\ pc = "unaligned"
    /\ AlignStore(TRUE, Freshen(alignPoints(mobject, targetCopy)))
    /\ hist' = [NoHist EXCEPT !.x = mobject, !.y = targetCopy]
    /\ pc' = "pointsAligned"
    /\ AlignFrame

\* mobject.addSubmobjects(k)
AddSubmobjectsStep ==
    /\ pc = "unaligned"
    /\ \E k \in 0..MaxExtra :
          /\ AlignStore(FALSE, Freshen(<<addSubmobjects(mobject, k), targetCopy>>))
          /\ hist' = [NoHist EXCEPT !.x = mobject, !.y = targetCopy, !.k = k]
    /\ pc' = "subsAdded"
    /\ AlignFrame

\* mobject.setAnchorsFromPoints(mobject.addPoints(k)), as in lines 524-528
AddPointsStep ==
    /\ pc = "unaligned"
    /\ \E k \in 0..MaxExtra :
          /\ AlignStore(FALSE, Freshen(<<SetGrown(addPoints(mobject, k)), targetCopy>>))
          /\ hist' = [NoHist EXCEPT !.x = mobject, !.y = targetCopy, !.k = k]
    /\ pc' = "pointsAdded"
    /\ AlignFrame

AlignNext == AlignDataStep \/ AlignPointsStep \/ AddSubmobjectsStep \/ AddPointsStep

SpecAlign == AlignInit /\ [][AlignNext]_vars

(***************************************************************************)
(* Spec: an animation is constructed on a tree, begun, and then driven by  *)
(* interpolate(alpha) calls in any order.                                  *)
(***************************************************************************)
\* interpolate is called with the multiples of 1/AlphaDen from just below 0
\* to just above 1
AlphaDen == 4

Alphas == {Q(k, AlphaDen) : k \in -1..(AlphaDen + 1)}

Variants == {"ShowCreation", "Write", "FadeIn", "FadeOut", "ReplacementTransform", "Wait"}

RateFuncs == {"linear", "smooth"}

LagRatios == {I(0), Q(1, 2)}

\* the rate functions a constructor of the class can be given or gives itself
RateFuncsOf(v) ==
    CASE v = "Write" -> {"linear"}
      [] v = "ReplacementTransform" -> {"smooth"}
      [] OTHER -> RateFuncs

\* likewise the lag ratios
LagRatiosOf(v, m) ==
    CASE v = "Write" -> LagRatios \cup {WriteLagRatio(m)}
      [] v = "ReplacementTransform" -> {I(0)}
      [] OTHER -> LagRatios

\* a shape that is one path, without submobjects
IsLeaf(m) == m.kind = "Mobject" /\ submobjects(m) = <<>>

\* the shapes a ReplacementTransform of m is given as its target: a path is
\* turned into a path, a composite into a composite
TargetsFor(m) == {t \in Shapes : IsLeaf(t) <=> IsLeaf(m)}

\* the animation object as a record
This == [variant |-> variant, rateFunc |-> rateFunc, lagRatio |-> lagRatio,
         trees |-> <<mobject, startingMobject, targetMobject, targetCopy>>,
         crash |-> FALSE]

\* the state after the constructor, lines 5-15 and 136-139: the trees the
\* caller passed, and what they were then
Constructed(trees) ==
    /\ mobject = trees[1]
    /\ startingMobject = trees[2]
    /\ targetMobject = trees[3]
    /\ targetCopy = trees[4]
    /\ hist = [begun |-> <<>>, start |-> Nil, tcopy |-> Nil,
               mobject0 |-> Content(trees[1]), target0 |-> Content(trees[3]),
               interpolated |-> FALSE]

Init ==
    /\ pc = "constructed"
    /\ variant \in Variants
    /\ rateFunc \in RateFuncsOf(variant)
    /\ \E m \in Shapes :
       \E t \in (IF variant = "ReplacementTransform" THEN TargetsFor(m) ELSE {Nil}) :
          /\ Constructed(Freshen(<<m, Nil, t, Nil>>))
          /\ lagRatio \in LagRatiosOf(variant, m)
    /\ lastAlpha = I(0)

\* the trees of the animation a, stored
Store(a) ==
    /\ mobject' = a.trees[1]
    /\ startingMobject' = a.trees[2]
    /\ targetMobject' = a.trees[3]
    /\ targetCopy' = a.trees[4]
    /\ pc' = IF a.crash THEN "crashed" ELSE "running"

\* the animation after begin() is stored, and what begin() left is remembered
BegunStore(a) ==
    /\ Store(a)
    /\ hist' = [hist EXCEPT !.begun = a.trees, !.start = Content(a.trees[2]),
                            !.tcopy = Content(a.trees[4])]

\* animation.begin()
Begin ==
    /\ pc = "constructed"
    /\ BegunStore(begin(This))
    /\ UNCHANGED <<variant, rateFunc, lagRatio, lastAlpha>>

\* animation.interpolate(alpha)
Interpolate ==
    /\ pc = "running"
    /\ \E alpha \in Alphas :
          /\ Store(interpolate(This, alpha))
          /\ lastAlpha' = alpha
    /\ hist' = [hist EXCEPT !.interpolated = TRUE]
    /\ UNCHANGED <<variant, rateFunc, lagRatio>>

Next == Begin \/ Interpolate

Spec == Init /\ [][Next]_vars

(***************************************************************************)
(* SpecSubAlpha: the stagger of interpolateMobject, lines 63-64, alone.    *)
(* An animation over NumNodes point-bearing nodes is driven by             *)
(* interpolate(alpha) calls; hist holds the sub-alpha of every node.       *)
(***************************************************************************)
\* the animated tree has at most MaxNodes nodes with points
MaxNodes == 3

\* the lag ratios are the multiples of 1/2 up to MaxLag/2
MaxLag == 3

SubLagRatios == {Q(k, 2) : k \in 0..MaxLag}

\* the sub-alphas getSubAlpha gives the num nodes for the eased alpha
SubAlphas(eased, num, lag) == [i \in 1..num |-> getSubAlpha(eased, i - 1, num, lag)]

\* what interpolate(alpha) hands on: the eased alpha of line 54 and the
\* sub-alphas of line 64
Timing(alpha, num) ==
    [num |-> num,
     eased |-> ApplyRateFunc(rateFunc, Clamp(alpha)),
     subs |-> SubAlphas(ApplyRateFunc(rateFunc, Clamp(alpha)), num, lagRatio)]

SubAlphaInit ==
    /\ pc = "timing"
    /\ variant = "none"
    /\ rateFunc \in RateFuncs
    /\ lagRatio \in SubLagRatios
    /\ mobject = Nil
    /\ startingMobject = Nil
    /\ targetMobject = Nil
    /\ targetCopy = Nil
    /\ lastAlpha = I(0)
    /\ \E num \in 1..MaxNodes : hist = Timing(I(0), num)

\* interpolate(alpha), as far as line 64
SubAlphaStep ==
    /\ pc = "timing"
    /\ \E alpha \in Alphas :
          /\ lastAlpha' = alpha
          /\ hist' = Timing(alpha, hist.num)
    /\ UNCHANGED <<pc, variant, rateFunc, lagRatio, mobject, startingMobject,
                   targetMobject, targetCopy>>

SubAlphaNext == SubAlphaStep

SpecSubAlpha == SubAlphaInit /\ [][SubAlphaNext]_vars

(***************************************************************************)
(* SpecDiff: the static getDiff of each class, called by a scene that      *)
(* tracks named objects.  An object is known by its name, a number;        *)
(* mobjectData lists the tracked objects in the order of Object.keys, each *)
(* with the names of its submobjects.                                      *)
(***************************************************************************)
\* the names are 1..MaxNames
MaxNames == 3

\* the scene tracks at most MaxTracked objects
MaxTracked == 2

Names == 1..MaxNames

\* the members of a set of names, as a list
RECURSIVE Ascending(_)
Ascending(S) ==
    IF S = {} THEN <<>>
    ELSE <<CHOOSE m \in S : \A n \in S : m <= n>>
         \o Ascending(S \ {CHOOSE m \in S : \A n \in S : m <= n})

\* the mobjectData in which the objects named in keys are tracked and
\* subs[k] are the submobjects of k
DataOf(keys, subs) ==
    [i \in DOMAIN keys |-> [name |-> keys[i], submobjects |-> Ascending(subs[keys[i]])]]

MobjectDatas ==
    UNION {{DataOf(Ascending(T), subs) : subs \in [T -> SUBSET Names]} :
              T \in {U \in SUBSET Names : Cardinality(U) <= MaxTracked}}

\* data.submobjects.includes(mobject), line 298
Includes(list, x) == \E i \in DOMAIN list : list[i] = x

\* a FadeOut.getDiff with a modify entry for every tracked object
FadeOutGetDiffAll(mob, mobjectData) ==
    [remove |-> <<mob>>,
     modify |-> [i \in DOMAIN mobjectData |->
                    <<mobjectData[i].name, <<"remove", mob>>, <<"add", mob>>>>]]

\* the loop of lines 296-305, from the i-th key on
RECURSIVE FadeOutModify(_, _, _)
FadeOutModify(mob, mobjectData, i) ==
    IF i > Len(mobjectData) THEN <<>>
    ELSE (IF Includes(mobjectData[i].submobjects, mob)
          THEN <<<<mobjectData[i].name, <<"remove", mob>>, <<"add", mob>>>>>>
          ELSE <<>>)
         \o FadeOutModify(mob, mobjectData, i + 1)

\* FadeOut.getDiff(mobject, mobjectData), lines 291-307
FadeOutGetDiff(mob, mobjectData) ==
    [remove |-> <<mob>>, modify |-> FadeOutModify(mob, mobjectData, 1)]

\* a ReplacementTransform.getDiff with the two objects exchanged
ReplacementTransformGetDiffSwapped(mob, target) ==
    [add |-> <<mob>>, remove |-> <<target>>]

\* ReplacementTransform.getDiff(mobject, targetMobject), lines 160-165
ReplacementTransformGetDiff(mob, target) ==
    [add |-> <<target>>, remove |-> <<mob>>]

\* ShowCreation.getDiff, Write.getDiff and FadeIn.getDiff, lines 179-183,
\* 229-233 and 279-283
AddGetDiff(mob) == [add |-> <<mob>>]

\* Wait.getDiff(), lines 313-315: the object {}
WaitGetDiff == [k \in {} |-> <<>>]

\* Animation.getDiff(), lines 129-132: console.error with the name of the
\* class it was called on, and no return value
AnimationGetDiff(class) == [error |-> <<class, "does not override getDiff()">>]

\* Class.getDiff(mobject, arg): arg is the targetMobject of a
\* ReplacementTransform and the mobjectData of a FadeOut
getDiff(class, mob, arg) ==
    CASE class = "ReplacementTransform" -> ReplacementTransformGetDiff(mob, arg)
      [] class = "FadeOut" -> FadeOutGetDiff(mob, arg)
      [] class = "Wait" -> WaitGetDiff
      [] class \in {"ShowCreation", "Write", "FadeIn"} -> AddGetDiff(mob)
      [] OTHER -> AnimationGetDiff(class)

DiffInit ==
    /\ pc = "scene"
    /\ variant = "none"
    /\ rateFunc = "linear"
    /\ lagRatio = I(0)
    /\ mobject = Nil
    /\ startingMobject = Nil
    /\ targetMobject = Nil
    /\ targetCopy = Nil
    /\ lastAlpha = I(0)
    /\ \E data \in MobjectDatas :
          hist = [data |-> data, mobject |-> 0, target |-> 0, diff |-> WaitGetDiff]

\* the scene asks a class for the diff of animating the object named m
GetDiffStep ==
    /\ pc = "scene"
    /\ \E class \in Variants, m \in Names :
       \E t \in (IF class = "ReplacementTransform" THEN Names ELSE {0}) :
          /\ variant' = class
          /\ hist' = [hist EXCEPT !.mobject = m, !.target = t,
                          !.diff = getDiff(class, m,
                                           IF class = "FadeOut" THEN hist.data ELSE t)]
    /\ pc' = "diffed"
    /\ UNCHANGED <<rateFunc, lagRatio, mobject, startingMobject, targetMobject,
                   targetCopy, lastAlpha>>

DiffNext == GetDiffStep

SpecDiff == DiffInit /\ [][DiffNext]_vars

(***************************************************************************)
(* SpecBase: an instance of the base class Animation, which overrides      *)
(* neither interpolateSubmobject nor getDiff, is constructed, begun and    *)
(* driven; hist.console is what the calls left on the console.             *)
(***************************************************************************)
\* the uncaught error of a call that threw: line 65 calls
\* this.interpolateSubmobject, which is undefined on an instance without one
UncaughtError(v) ==
    IF HasInterpolateSubmobject(v) THEN <<"TypeError">>
    ELSE <<"TypeError", "this.interpolateSubmobject is not a function">>

\* the console after the call that left the animation a
ConsoleAfter(a) == IF a.crash THEN <<UncaughtError(a.variant)>> ELSE <<>>

BaseInit ==
    /\ pc = "constructed"
    /\ variant = "Animation"
    /\ rateFunc \in RateFuncs
    /\ lagRatio \in LagRatios
    /\ \E m \in Shapes : mobject = Freshen(<<m>>)[1]
    /\ startingMobject = Nil
    /\ targetMobject = Nil
    /\ targetCopy = Nil
    /\ lastAlpha = I(0)
    /\ hist = [begun |-> <<>>, start |-> Nil, tcopy |-> Nil, interpolated |-> FALSE,
               console |-> <<>>, diff |-> <<>>]

\* the animation after begin() is stored, with what begin() left on the console
BaseBegun(a) ==
    /\ Store(a)
    /\ hist' = [hist EXCEPT !.begun = a.trees, !.start = Content(a.trees[2]),
                            !.console = ConsoleAfter(a)]

\* animation.begin()
BaseBegin ==
    /\ pc = "constructed"
    /\ BaseBegun(begin(This))
    /\ UNCHANGED <<variant, rateFunc, lagRatio, lastAlpha>>

\* Animation.getDiff(), called on the class
BaseGetDiff ==
    /\ hist.diff = <<>>
    /\ hist' = [hist EXCEPT !.diff = getDiff(variant, 0, 0)]
    /\ UNCHANGED <<pc, variant, rateFunc, lagRatio, mobject, startingMobject,
                   targetMobject, targetCopy, lastAlpha>>

BaseNext == BaseBegin \/ Interpolate \/ BaseGetDiff

SpecBase == BaseInit /\ [][BaseNext]_vars

(***************************************************************************)
(* SpecRing: the draw-on animations run on outlines that end where they    *)
(* begin, as a Circle does.                                                *)
(***************************************************************************)
\* the path of a Circle of k anchors, lines 985-999 with 943-947: the
\* anchors run from the angle 0 to the angle TAU, so that the last one lies
\* where the first does
CirclePath(k) ==
    LET anchor(i) ==
            LET c == Corner(IF i = k THEN 1 ELSE i)
            IN  NewAnchor(c,
                          IF i = 1 THEN c ELSE <<QSub(c[1], I(2)), QAdd(c[2], I(3))>>,
                          IF i = k THEN c ELSE <<QAdd(c[1], I(2)), QAdd(c[2], I(3))>>,
                          IF i = 1 THEN "M" ELSE "C")
    IN  NewPath([i \in 1..k |-> anchor(i)], TRUE)

\* new Circle(), line 987: style = {strokeColor: consts.RED}
Circle(k) == NewMobject(CirclePath(k), <<>>, StyleA)

Rings ==
    {Circle(k) : k \in 3..MaxPoints}
    \cup {NewGroup(<<Circle(3), Leaf(j)>>) : j \in 2..3}
    \cup {NewGroup(<<Circle(4), Circle(3)>>)}

RingInit ==
    /\ pc = "constructed"
    /\ variant \in {"ShowCreation", "Write"}
    /\ rateFunc \in RateFuncsOf(variant)
    /\ \E m \in Rings :
          /\ Constructed(Freshen(<<m, Nil, Nil, Nil>>))
          /\ lagRatio \in LagRatiosOf(variant, m)
    /\ lastAlpha = I(0)

RingNext == Begin \/ Interpolate

SpecRing == RingInit /\ [][RingNext]_vars

(***************************************************************************)
(* Properties of the alignment routines (SpecAlign).                       *)
(***************************************************************************)
\* the two trees agree on the number of points at every pair of corresponding nodes
RECURSIVE SamePointCounts(_, _)
SamePointCounts(x, y) ==
    /\ Len(points(x)) = Len(points(y))
    /\ \A i \in 1..Min2(Len(submobjects(x)), Len(submobjects(y))) :
          SamePointCounts(submobjects(x)[i], submobjects(y)[i])

\* the two trees agree on the number of submobjects at every corresponding level
RECURSIVE SameSubCounts(_, _)
SameSubCounts(x, y) ==
    /\ Len(submobjects(x)) = Len(submobjects(y))
    /\ \A i \in 1..Min2(Len(submobjects(x)), Len(submobjects(y))) :
          SameSubCounts(submobjects(x)[i], submobjects(y)[i])

\* the structure of a tree: the point count of every node and its submobjects' structures
RECURSIVE Structure(_)
Structure(n) ==
    <<Len(points(n)), [i \in 1..Len(submobjects(n)) |-> Structure(submobjects(n)[i])]>>

\* C1: after alignData(x, y) every pair of corresponding nodes has paths of
\* the same number of points
C1_SamePointCounts ==
    pc = "aligned" => SamePointCounts(mobject, targetCopy)

\* C2: after alignData(x, y) the trees have the same number of submobjects at
\* every corresponding level and the assertion of line 413 never failed
C2_SameSubmobjectCounts ==
    pc \in {"aligned", "realigned"} => hist.ok /\ SameSubCounts(mobject, targetCopy)

\* C2 witness: nullPointAlign pushed the argument's path into a new child and
\* the receiver was grown to match
C2_Witness ==
    /\ pc = "aligned"
    /\ Len(points(hist.x)) = 0 /\ Len(points(hist.y)) > 1
    /\ Len(submobjects(targetCopy)) = Len(submobjects(hist.y)) + 1
    /\ Len(submobjects(mobject)) > Len(submobjects(hist.x))

\* C3: a second alignData(x, y) changes neither tree's structure
C3_Idempotent ==
    pc = "realigned" =>
        /\ Structure(mobject) = Structure(hist.x)
        /\ Structure(targetCopy) = Structure(hist.y)

\* C3 witness: a second alignment after a first one that changed both trees
C3_Witness ==
    /\ pc = "realigned"
    /\ Structure(hist.x) # Structure(hist.x0)
    /\ Structure(hist.y) # Structure(hist.y0)

Positions(n) == [i \in DOMAIN points(n) |-> points(n)[i].p]

\* s is t with some elements left out
RECURSIVE IsSubsequence(_, _)
IsSubsequence(s, t) ==
    IF s = <<>> THEN TRUE
    ELSE IF t = <<>> THEN FALSE
    ELSE IF Head(s) = Head(t) THEN IsSubsequence(Tail(s), Tail(t))
    ELSE IsSubsequence(s, Tail(t))

\* the anchors of before are anchors of after, in order, first and last kept
AnchorsKept(before, after) ==
    Len(points(before)) > 0 =>
        /\ Len(points(after)) > 0
        /\ IsSubsequence(Positions(before), Positions(after))
        /\ Positions(before)[1] = Positions(after)[1]
        /\ Last(Positions(before)) = Last(Positions(after))

\* C4: alignPoints only re-parameterizes: every anchor position a path had
\* is still an anchor of it, in order, a single point included
C4_AnchorsKept ==
    pc = "pointsAligned" =>
        AnchorsKept(hist.x, mobject) /\ AnchorsKept(hist.y, targetCopy)

\* where the clones of submobject i start among the new submobjects
CloneStart(sf, i) == SumSeq([j \in 1..(i - 1) |-> IF sf[j] = 0 THEN 1 ELSE sf[j]])

IsTransparent(n) ==
    getStyleDict(n).strokeOpacity = I(0) /\ getStyleDict(n).fillOpacity = I(0)

\* C5: after addSubmobjects(k) on a node with children, every clone beyond
\* the first of each original child reads back as fully transparent
C5_ExtraClonesTransparent ==
    (pc = "subsAdded" /\ Len(submobjects(hist.x)) >= 1) =>
        LET cur == Len(submobjects(hist.x))
            sf == SplitFactors(cur, cur + hist.k)
        IN  \A i \in 1..cur : \A j \in 2..sf[i] :
               IsTransparent(submobjects(mobject)[CloneStart(sf, i) + j])

\* C6: the split factors of n items grown by k are n non-negative integers
\* summing to n + k; addSubmobjects(k) leaves n + k children and
\* addPoints(k) with setAnchorsFromPoints leaves k more anchors
C6_ExactAllocation ==
    /\ (pc = "subsAdded" /\ Len(submobjects(hist.x)) >= 1) =>
          LET n == Len(submobjects(hist.x))
              sf == SplitFactors(n, n + hist.k)
          IN  /\ Len(sf) = n
              /\ \A i \in 1..n : sf[i] >= 0
              /\ SumSeq(sf) = n + hist.k
              /\ Len(submobjects(mobject)) = n + hist.k
    /\ (pc = "pointsAdded" /\ Len(points(hist.x)) >= 2) =>
          LET n == Len(points(hist.x)) - 1
              sf == SplitFactors(n, n + hist.k)
          IN  /\ Len(sf) = n
              /\ \A i \in 1..n : sf[i] >= 0
              /\ SumSeq(sf) = n + hist.k
              /\ Len(points(mobject)) = Len(points(hist.x)) + hist.k

\* C6 witness: a path of several curves was given extra points that do not
\* divide evenly among them
C6_Witness ==
    /\ pc = "pointsAdded"
    /\ Len(points(hist.x)) >= 3
    /\ hist.k > 0
    /\ hist.k % (Len(points(hist.x)) - 1) # 0
    /\ Len(points(mobject)) = Len(points(hist.x)) + hist.k

(***************************************************************************)
(* Claims about a running animation (Spec).                                *)
(***************************************************************************)
\* the animation as begin() left it
Begun == [This EXCEPT !.trees = hist.begun]

\* C7: after begin(), the live tree after interpolate(alpha) depends on alpha
\* and the snapshots only: whatever interpolate calls came before, the call
\* leaves what interpolate(alpha) leaves when it is the first call after
\* begin(), on every node, for every variant.
C7_InterpolateDependsOnAlphaOnly ==
    (pc \in {"running", "crashed"} /\ hist.interpolated) =>
        LET direct == interpolate(Begun, lastAlpha)
        IN  /\ direct.crash = (pc = "crashed")
            /\ Content(direct.trees[1]) = Content(mobject)

\* the ids of the objects of o that were there before the animation began
OldIds(o) == Ids(o) \ {0, -1}

\* C8: startingMobject is a deep, independent clone: once begin() has
\* returned no interpolate call changes startingMobject or targetCopy, and
\* startingMobject shares no node, path or anchor with the live tree.  Where
\* begin() does nothing but clone, the clone has the content the live tree
\* was constructed with.
C8_StartingMobjectIndependent ==
    (pc \in {"running", "crashed"}) =>
        /\ Content(startingMobject) = hist.start
        /\ Content(targetCopy) = hist.tcopy
        /\ (variant \in {"ShowCreation", "FadeIn", "FadeOut"}) => hist.start = hist.mobject0
        /\ startingMobject.id # mobject.id
        /\ OldIds(startingMobject) \cap OldIds(mobject) = {}
        /\ OldIds(targetCopy) \cap OldIds(mobject) = {}

\* interpolate calls have moved the live tree away from where begin() left it
C8_Witness ==
    /\ pc = "running"
    /\ hist.interpolated
    /\ variant \in {"ShowCreation", "Write", "FadeIn", "ReplacementTransform"}
    /\ Content(mobject) # Content(hist.begun[1])
    /\ C8_StartingMobjectIndependent

\* C9: ReplacementTransform never changes the targetMobject it was given:
\* after begin() and any interpolate calls it has the structure, points,
\* anchors and style it had before begin(), and shares no object with the
\* trees the animation works on.
C9_TargetMobjectUntouched ==
    (variant = "ReplacementTransform" /\ pc # "constructed") =>
        /\ Content(targetMobject) = hist.target0
        /\ targetMobject.id # targetCopy.id
        /\ OldIds(targetMobject) \cap (OldIds(targetCopy) \cup OldIds(mobject)
                                         \cup OldIds(startingMobject)) = {}

\* the alignment of begin() has changed the copy of the target, and
\* interpolate has been called
C9_Witness ==
    /\ variant = "ReplacementTransform"
    /\ pc = "running"
    /\ hist.interpolated
    /\ Content(targetCopy) # hist.target0
    /\ C9_TargetMobjectUntouched

\* positions and control points of the anchors of n
Geometry(n) == [i \in DOMAIN points(n) |-> <<points(n)[i].p, points(n)[i].l, points(n)[i].r>>]

Max2(a, b) == IF a >= b THEN a ELSE b

\* C10: cross-fade between a path with fewer points and a path with more:
\* after begin() the live node and the target copy both have the larger
\* number of points, and interpolate(1) leaves every live node that has
\* points with the anchors, control points and style of its partner in the
\* target copy.
C10_CrossFadeReachesTarget ==
    (/\ variant = "ReplacementTransform"
     /\ pc # "constructed"
     /\ IsLeaf(hist.mobject0)
     /\ IsLeaf(hist.target0)
     /\ Len(points(hist.mobject0)) # Len(points(hist.target0))) =>
        LET larger == Max2(Len(points(hist.mobject0)), Len(points(hist.target0)))
            live == WithPoints(getMobjectHeirarchy(mobject))
            target == WithPoints(getMobjectHeirarchy(targetCopy))
        IN  /\ Len(points(hist.begun[1])) = larger
            /\ Len(points(hist.begun[4])) = larger
            /\ (hist.interpolated /\ QLe(I(1), lastAlpha)) =>
                  /\ pc = "running"
                  /\ Len(live) = Len(target)
                  /\ \A i \in DOMAIN live :
                        /\ Geometry(live[i]) = Geometry(target[i])
                        /\ live[i].style = target[i].style
(***************************************************************************)
(* Properties of the stagger (SpecSubAlpha).                               *)
(***************************************************************************)
\* C11: with lagRatio = 0, getSubAlpha gives every node the eased alpha
\* itself, the endpoints 0 and 1 included: all nodes progress together.
C11_NoLagIsSimultaneous ==
    (pc = "timing" /\ lagRatio = I(0)) =>
        \A i \in DOMAIN hist.subs : hist.subs[i] = hist.eased

\* several nodes, no lag, an eased alpha strictly inside (0, 1)
C11_Witness ==
    /\ pc = "timing"
    /\ lagRatio = I(0)
    /\ hist.num = MaxNodes
    /\ QLt(I(0), hist.eased)
    /\ QLt(hist.eased, I(1))
    /\ hist.subs[MaxNodes] = hist.eased

\* C12: three nodes staggered with lagRatio = 0.5: node 2 has a sub-alpha
\* above 0 only when node 0 has reached 1, and where fullRuntime * alpha is
\* exactly 1 node 0 is at 1 and node 2 still at 0.
C12_StaggerOrder ==
    (pc = "timing" /\ lagRatio = Q(1, 2) /\ hist.num = 3) =>
        /\ QLt(I(0), hist.subs[3]) => hist.subs[1] = I(1)
        /\ QMul(I(2), hist.eased) = I(1) => (hist.subs[1] = I(1) /\ hist.subs[3] = I(0))

\* the tie: fullRuntime * alpha = 2 * 1/2 = 1
C12_Witness ==
    /\ pc = "timing"
    /\ lagRatio = Q(1, 2)
    /\ hist.num = 3
    /\ hist.eased = Q(1, 2)
    /\ hist.subs = <<I(1), Q(1, 2), I(0)>>
(***************************************************************************)
(* Properties of interpolate and of the per-node steps (Spec).             *)
(***************************************************************************)
OutOfRange(alpha) == QLt(alpha, I(0)) \/ QLt(I(1), alpha)

\* the end of [0, 1] nearest to an alpha outside it
Endpoint(alpha) == IF QLt(alpha, I(0)) THEN I(0) ELSE I(1)

\* what the animation a would be after its rate function and
\* interpolateMobject were run on the alpha given, unclamped
Unclamped(a, alpha) ==
    AfterLive(a, interpolateMobject(a, ApplyRateFunc(a.rateFunc, alpha)))

\* the step leaves the trees of the animation direct, and ends in an error
\* exactly if direct did
SameEffect(direct) ==
    /\ mobject' = direct.trees[1]
    /\ startingMobject' = direct.trees[2]
    /\ targetMobject' = direct.trees[3]
    /\ targetCopy' = direct.trees[4]
    /\ (pc' = "crashed") = direct.crash

PathOf(n) == n.children[CHOOSE i \in DOMAIN n.children : n.children[i].tag = "path"]

\* the segments of a path with the anchors v: the curve from each anchor to
\* the next, as its four control points
QuadsOf(v) == [i \in 1..(IF Len(v) = 0 THEN 0 ELSE Len(v) - 1) |-> QuadOf(v[i], v[i + 1])]

\* the first floor(a * N) of the N segments quads and, if that is fewer than
\* N, the left part of the next one split at the fractional residue
ExpectedQuads(quads, a) ==
    SubSeq(quads, 1, QFloor(QMul(I(Len(quads)), a)))
    \o (IF QFloor(QMul(I(Len(quads)), a)) < Len(quads)
        THEN <<SplitBezierLeft(quads[QFloor(QMul(I(Len(quads)), a)) + 1],
                               QSub(QMul(I(Len(quads)), a),
                                    I(QFloor(QMul(I(Len(quads)), a)))))>>
        ELSE <<>>)

\* the node's path is open and is the starting path revealed up to a
RevealedTo(node, start, a) ==
    /\ PathOf(node).closed = FALSE
    /\ QuadsOf(PathOf(node).vertices) = ExpectedQuads(QuadsOf(points(start)), a)

\* the alpha interpolate(alpha) hands to interpolateMobject
Eased(alpha) == ApplyRateFunc(rateFunc, Clamp(alpha))

\* where the nodes with points sit in the tree n
PointAddrs(n) == SelectSeq(HeirarchyAddrs(n), LAMBDA ad : Len(points(NodeAt(n, ad))) > 0)

\* the nodes with points of the starting snapshot
Starts == WithPoints(getMobjectHeirarchy(startingMobject))

\* every starting path has a segment
HaveSegments(nodes) == \A i \in DOMAIN nodes : Len(points(nodes[i])) >= 2

\* the sub-alpha of the i-th node in the interpolate call of this step
SubAlphaOfStep(i, num) == getSubAlpha(Eased(lastAlpha'), i - 1, num, lagRatio)

\* what ShowCreation's step does to one node
ShowCreationStepOK(before, after, start, sub) ==
    IF sub = I(0) THEN after = before ELSE RevealedTo(after, start, sub)

\* C17: creation-reveal.  In an interpolate call on a tree whose starting
\* paths have segments, each node with points gets a sub-alpha a; for a in
\* (0, 1] its path becomes the open path of the first floor(a * N) whole
\* segments of its starting path followed, if that is fewer than N, by the
\* left part of the next segment split at the fractional residue; for a = 0
\* the node is left as it was.  The call raises no error.
C17_CreationReveal ==
    [][(variant = "ShowCreation" /\ pc = "running" /\ WellFormed(mobject)
        /\ HaveSegments(Starts)) =>
          /\ pc' = "running"
          /\ \A i \in DOMAIN PointAddrs(mobject) :
                ShowCreationStepOK(NodeAt(mobject, PointAddrs(mobject)[i]),
                                   NodeAt(mobject', PointAddrs(mobject)[i]),
                                   Starts[i],
                                   SubAlphaOfStep(i, Len(PointAddrs(mobject))))]_vars

\* a path of 3 segments at alpha 0.5 without lag: 1.5 segments are drawn,
\* one whole and half of the next
C17_Witness ==
    /\ variant = "ShowCreation"
    /\ pc = "running"
    /\ hist.interpolated
    /\ IsLeaf(startingMobject)
    /\ Len(QuadsOf(points(startingMobject))) = 3
    /\ ApplyRateFunc(rateFunc, Clamp(lastAlpha)) = Q(1, 2)
    /\ Len(QuadsOf(points(mobject))) = 2
    /\ QuadsOf(points(mobject))[1] = QuadsOf(points(startingMobject))[1]
    /\ QuadsOf(points(mobject))[2] = SplitBezierLeft(QuadsOf(points(startingMobject))[2], Q(1, 2))
    /\ path(mobject).closed = FALSE

(***************************************************************************)
(* Properties of getDiff (SpecDiff).                                       *)
(***************************************************************************)
\* the places in mobjectData of the tracked objects that have mobject among
\* their submobjects
Referencing(data, m) == {i \in DOMAIN data : Includes(data[i].submobjects, m)}

\* C14: FadeOut.getDiff(mobject, mobjectData) returns remove = [mobject] and
\* a modify list with exactly one entry, under the name of the tracked
\* object, for each tracked object whose submobjects contain mobject, and no
\* entry for any other tracked object.
C14_FadeOutDiff ==
    (pc = "diffed" /\ variant = "FadeOut") =>
        /\ DOMAIN hist.diff = {"remove", "modify"}
        /\ hist.diff.remove = <<hist.mobject>>
        /\ Len(hist.diff.modify) = Cardinality(Referencing(hist.data, hist.mobject))
        /\ \A i \in DOMAIN hist.data :
              Cardinality({j \in DOMAIN hist.diff.modify :
                              hist.diff.modify[j][1] = hist.data[i].name})
              = IF i \in Referencing(hist.data, hist.mobject) THEN 1 ELSE 0

\* the faded object is a submobject of two tracked objects: two modify
\* entries and one remove entry
C14_Witness ==
    /\ pc = "diffed"
    /\ variant = "FadeOut"
    /\ Cardinality(Referencing(hist.data, hist.mobject)) = 2
    /\ Len(hist.diff.modify) = 2
    /\ Len(hist.diff.remove) = 1

\* the entries of the diff under key, none if the diff has no such key
Entries(diff, key) == IF key \in DOMAIN diff THEN diff[key] ELSE <<>>

\* C15: the getDiff of ShowCreation, Write and FadeIn adds exactly the
\* animated object and removes nothing; that of ReplacementTransform removes
\* exactly the source object and adds exactly the target object; that of
\* Wait adds, removes and modifies nothing.
C15_DiffPerVariant ==
    (pc = "diffed") =>
        /\ variant \in {"ShowCreation", "Write", "FadeIn"} =>
              /\ Entries(hist.diff, "add") = <<hist.mobject>>
              /\ Entries(hist.diff, "remove") = <<>>
              /\ Entries(hist.diff, "modify") = <<>>
        /\ variant = "ReplacementTransform" =>
              /\ Entries(hist.diff, "add") = <<hist.target>>
              /\ Entries(hist.diff, "remove") = <<hist.mobject>>
              /\ Entries(hist.diff, "modify") = <<>>
        /\ variant = "Wait" =>
              /\ Entries(hist.diff, "add") = <<>>
              /\ Entries(hist.diff, "remove") = <<>>
              /\ Entries(hist.diff, "modify") = <<>>

\* a cross-fade from one object to another one
C15_Witness ==
    /\ pc = "diffed"
    /\ variant = "ReplacementTransform"
    /\ hist.mobject # hist.target
    /\ hist.diff = [add |-> <<hist.target>>, remove |-> <<hist.mobject>>]
(***************************************************************************)
(* Properties of the base class (SpecBase).                                *)
(***************************************************************************)
\* C16: an instance of the base Animation over a tree with at least one
\* node that has points: running it ends in the developer-facing error that
\* names the missing override, "Animation does not override
\* interpolateSubmobject()", and in no other failure; Animation.getDiff()
\* reports "Animation does not override getDiff()".
C16_MissingOverrideReported ==
    /\ (pc # "constructed" /\ WithPoints(getMobjectHeirarchy(mobject)) # <<>>) =>
          hist.console = <<<<variant, "does not override interpolateSubmobject()">>>>
    /\ hist.diff # <<>> =>
          hist.diff = [error |-> <<variant, "does not override getDiff()">>]

(***************************************************************************)
(* Properties of the draw-on animations on rings (SpecRing).               *)
(***************************************************************************)
\* what getStyleDict reads back of a fill opacity that applyStyle stored
FillRead(opacity) == ChromaAlpha(ChromaAlphaHex(Colour(Pure("white"), 255), opacity))

\* the node after a Write step at the sub-alpha sub, against its starting node
WriteStepOK(after, start, sub) ==
    IF QLe(sub, Q(1, 2)) THEN RevealedTo(after, start, QMul(I(2), sub))
    ELSE /\ QuadsOf(PathOf(after).vertices) = QuadsOf(points(start))
         /\ getStyleDict(after).fillOpacity = FillRead(QSub(QMul(I(2), sub), I(1)))

\* C18: a Write step at a sub-alpha a <= 1/2 leaves the node's path the partial
\* reveal of its starting path up to 2a; at a > 1/2 it leaves the node with
\* all the segments of its starting path, whatever partial path it held
\* before, and with the fill opacity 2a - 1
C18_WriteStep ==
    [][(variant = "Write" /\ pc = "running" /\ WellFormed(mobject) /\ HaveSegments(Starts)) =>
          /\ pc' = "running"
          /\ \A i \in DOMAIN PointAddrs(mobject) :
                WriteStepOK(NodeAt(mobject', PointAddrs(mobject)[i]), Starts[i],
                            SubAlphaOfStep(i, Len(PointAddrs(mobject))))]_vars

(***************************************************************************)
(* Properties of the trees of an animation (Spec).                         *)
(***************************************************************************)
\* the trees the animation holds
TreesHeld == {t \in {mobject, startingMobject, targetMobject, targetCopy} : t.tag = "mob"}

\* C19: in every node of every tree, after any sequence of operations,
\* children[0] is the node's own path and children[1..] are its submobjects;
\* this holds after pointwiseBecomePartial on a node that has both points
\* and submobjects
C19_NodeLayout == \A t \in TreesHeld : WellFormed(t)

\* the trees the next interpolate call lists the nodes of
CopiesNow == getCopiesForInterpolation(This)

\* the nodes with points of every tree can be listed, and sit at the same
\* places in each tree as in the live one
ListsPaired(copies) ==
    \A k \in DOMAIN copies : WellFormed(copies[k]) /\ PointAddrs(copies[k]) = PointAddrs(copies[1])

\* C20: at every interpolate call after begin(), the lists of nodes with points
\* taken from the trees of getCopiesForInterpolation have the same length,
\* and index i is the node at the same place of each tree
C20_ListsPaired == pc = "running" => ListsPaired(CopiesNow)

(***************************************************************************)
(* Properties of the sub-alphas handed to the per-node steps               *)
(* (SpecSubAlpha).                                                         *)
(***************************************************************************)
\* the classes whose per-node step calls pointwiseBecomePartial
DrawOn == {"ShowCreation", "Write"}

\* the sub-alpha sub handed to a step of class v at the eased alpha eased
\* is in range, at its end where eased is, and passes line 832
SubAlphaOK(v, eased, sub) ==
    /\ QLe(I(0), sub) /\ QLe(sub, I(1))
    /\ eased = I(0) => sub = I(0)
    /\ eased = I(1) => sub = I(1)
    /\ \A ab \in PartialCalls(v, sub) : PartialAssert(ab[1], ab[2])

\* C21: for a lag ratio >= 0, N >= 1 nodes and 0 <= i < N every sub-alpha
\* handed to a per-node step is in [0, 1], is 0 for every i when the eased
\* alpha is 0 and 1 for every i when it is 1; so the assertion of getSubAlpha
\* and that of pointwiseBecomePartial hold in begin() and in every
\* interpolate()
C21_SubAlphaInRange ==
    pc = "timing" =>
        /\ SubAlphaAssert(hist.eased)
        /\ \A i \in DOMAIN hist.subs : \A v \in DrawOn :
              SubAlphaOK(v, hist.eased, hist.subs[i])

\* an interpolate call with a lag ratio above 1 has handed the nodes
\* sub-alphas on both sides of 1/2, one of them strictly inside (0, 1)
C21_Witness ==
    /\ pc = "timing"
    /\ QLt(I(1), lagRatio)
    /\ lastAlpha # I(0)
    /\ \E i, j \in DOMAIN hist.subs :
          /\ QLt(Q(1, 2), hist.subs[i])
          /\ QLt(I(0), hist.subs[j])
          /\ QLe(hist.subs[j], Q(1, 2))

====
